---- MODULE Spec2Model ----
(***************************************************************************)
(* A model of the ckey virtual WebAuthn authenticator: the persisted key   *)
(* pools and delegation list (chrome.storage.sync), the credential key     *)
(* store, and the request handlers that read and write them.  Every        *)
(* handler is cut at its storage accesses: each storage get or set is one  *)
(* atomic step, an answer that is delivered after further awaits is a step *)
(* of its own, and the steps of concurrent requests interleave freely,     *)
(* which is what the awaits of the handlers allow.  Storage calls and the  *)
(* WebCrypto calls are taken to succeed (chrome.runtime.lastError unset).  *)
(*                                                                         *)
(* Five specifications share the variables: Spec runs the handlers of the  *)
(* recovery and webauthn modules with requests from one origin,            *)
(* AssertionSpec the creation and assertion handlers with assertion        *)
(* requests that offer several candidates, RecoverySpec the recovery flow  *)
(* with requests from several origins, StorageSpec the CredentialsMap of   *)
(* the auth_storage module with the wrapped export of credential sources,  *)
(* and PSKStorageSpec its PSKStorage, both on chrome.storage.local.        *)
(***************************************************************************)
EXTENDS Integers, Sequences, FiniteSets, TLC

\* Bound: the number of requests issued in one behaviour.
MaxOps == 3
\* Bound: the number of recovery keys createRecoveryKeys generates in total.
MaxRecKeys == 2
\* Bound: the longest allowCredentials list of the assertion specification.
MaxAllow == 2

\* Request slots: at most this many requests are in flight at once.
Slots == {1, 2}
Pins == {"pinA", "pinB"}

\* Identifiers and key material are opaque tokens.
B(n) == <<"b", n>>
R(n) == <<"r", n>>
NoId == <<"none", 0>>
NoKey == <<"nokey", 0>>
\* The value Array.prototype.pop yields on an empty array.
Undefined == [id |-> <<"undefined", 0>>, key |-> <<"undefined", 0>>]

BackupIds == {B(1), B(2)}
RecIds == {R(n) : n \in 1..MaxRecKeys}
AllIds == BackupIds \cup RecIds

\* /recovery/backup.json: the bundled backup keys, each with its kid.
BackupAsset == << [id |-> B(1), key |-> <<"bk", 1>>],
                  [id |-> B(2), key |-> <<"bk", 2>>] >>

\* One entry of /recovery/delegation.json.  sigOk abstracts whether the
\* entry's signature verifies against the backup key's public key.
Delegation(b, r, ok) == [backupId |-> B(b), replacementId |-> R(r), sigOk |-> ok]

\* The delegation bundles considered (the asset is fixed per installation).
DelegationAssets ==
  { << Delegation(1, 1, FALSE) >>,
    << Delegation(1, 1, TRUE), Delegation(2, 2, TRUE) >> }

\* The outcomes of the XMLHttpRequest that loads an asset.
XhrOutcomes == {"200", "404", "unreachable"}

\* allowCredentials of a request: absent, or a list of credential ids.
AllowOptions ==
  { [present |-> FALSE, list |-> << >>], [present |-> TRUE, list |-> << >>] }
  \cup { [present |-> TRUE, list |-> << x >>] : x \in AllIds }

\* allowCredentials with several candidates, in the caller's order (ids may
\* repeat).
AllowLists ==
  { [present |-> TRUE, list |-> l] :
      l \in UNION { [1..n -> BackupIds] : n \in 1..MaxAllow } }

VARIABLES
  asset,    \* the delegation bundle shipped with the extension
  sync,     \* chrome.storage.sync: the "backup", "recovery", "delegation" entries
  keys,     \* the credential key store written by saveKey: id -> wrapped key
  req,      \* per slot: the position and locals of the request in flight
  out,      \* the response delivered by the step just taken (NoResponse if none)
  ops,      \* number of requests issued so far
  nextRec,  \* number of recovery keys generated so far
  issued,   \* history: how often each backup key id was returned by a pop
  usedRec,  \* history: how often each recovery key id was used by a recovery
  reloaded, \* history: syncBackupKeys has replaced a pool that was already stored
  local,    \* chrome.storage.local: the credential map entries and the endpoint
  putLog    \* history: the credential sources put per rpId, and whether puts overlapped

vars == << asset, sync, keys, req, out, ops, nextRec, issued, usedRec, reloaded,
           local, putLog >>

\* The state of the recovery and webauthn modules, and that of auth_storage.
authVars == << asset, sync, keys, nextRec, issued, usedRec, reloaded >>
storageVars == << local, putLog >>

Absent == [present |-> FALSE, list |-> << >>]
Stored(list) == [present |-> TRUE, list |-> list]
NoKeyEntry == [present |-> FALSE, key |-> NoKey, pin |-> "none"]

Idle == [pc |-> "idle"]
\* A call whose promise never settles.
Hung(op) == [pc |-> "hung", op |-> op]

\* A response: the operation, how it ended ("ok", "null", "error"), and for a
\* credential response its id, the key that signed or was persisted, the PIN
\* of the request, the offered credential ids and the delegation it used;
\* for a creation, the attestation conveyance it asked for.
Response(op, kind, err, id, key, pin, offered, delegation) ==
  [op |-> op, kind |-> kind, err |-> err, id |-> id, key |-> key,
   pin |-> pin, offered |-> offered, delegation |-> delegation, psk |-> FALSE,
   attestation |-> "n/a", callerOrigin |-> "n/a", rpIdOption |-> "n/a",
   clientOrigin |-> "n/a", rpID |-> "n/a"]
NoResponse == Response("none", "none", "", NoId, NoKey, "none", << >>, << >>)

Last(s) == s[Len(s)]
Front(s) == SubSeq(s, 1, Len(s) - 1)

----------------------------------------------------------------------------
\* Storage primitives.

\* fetchPSKKeys: the list stored under identifier, every key imported by
\* parseJWK (the entry must be present and its keys importable, see
\* FetchHangs).
fetchPSKKeys(store, identifier) == store[identifier].list

\* storePSKKeys: the entry is replaced by the given list.
storePSKKeys(store, identifier, psk) == [store EXCEPT ![identifier] = Stored(psk)]

\* fetchDelegations / storeDelegations: as above, on the "delegation" entry.
fetchDelegations(store) == store["delegation"].list
storeDelegations(store, del) == [store EXCEPT !["delegation"] = Stored(del)]

\* The keys createRecoveryKeys generates are private keys (their JWK has the
\* member d); the keys of the backup bundle are public keys.
IsPrivateJWK(key) == key[1] = "rk"

\* parseJWK imports with the empty usages list, which importKey rejects for
\* a private key.
parseJWKThrows(key) == IsPrivateJWK(key)

\* fetchPSKKeys never resolves nor rejects when the entry was never stored
\* (JSON.parse of undefined throws) or when one of its keys is a private key
\* (parseJWK throws): both happen inside the async storage callback.
FetchHangs(store, identifier) ==
  \/ ~store[identifier].present
  \/ \E i \in 1..Len(store[identifier].list) :
       parseJWKThrows(store[identifier].list[i].key)

\* fetchDelegations parses the entry and imports nothing: it never settles
\* only when the entry was never stored.
fetchDelegationsHangs(store) == ~store["delegation"].present

\* fetchBackupKeys of src/recovery.ts parses the entry and imports nothing:
\* it never settles only when the entry was never stored.
fetchBackupKeysHangs(store, identifier) == ~store[identifier].present
\* fetchBackupKeys / storeBackupKeys of src/recovery.ts: the parsed list of
\* the entry, whatever it holds, and the entry replaced by the given list.
fetchBackupKeys(store, identifier) == store[identifier].list
storeBackupKeys(store, identifier, backupKeys) ==
  [store EXCEPT ![identifier] = Stored(backupKeys)]

\* The entries of chrome.storage.sync, as identifiers handed to popBackupKey
\* of src/recovery.ts.
Identifiers == {"backup", "recovery", "delegation"}

\* Mutant of ArrayPop: the first element is taken (shift in place of pop).
ArrayPop_First(list) == IF Len(list) = 0 THEN Undefined ELSE list[1]

\* Array.prototype.pop: the last element (undefined on an empty array) ...
ArrayPop(list) == IF Len(list) = 0 THEN Undefined ELSE Last(list)
\* ... and the array it leaves.
ArrayPopRest(list) == IF Len(list) = 0 THEN << >> ELSE Front(list)

\* saveKey, keyExists, fetchKey of ./storage, as webauthn.ts calls them.
saveKey(store, id, key, pin) ==
  [store EXCEPT ![id] = [present |-> TRUE, key |-> key, pin |-> pin]]
keyExists(store, id) == store[id].present
\* fetchKey: << key >> when the entry exists and unwraps under pin, << >> when
\* it rejects.
fetchKey(store, id, pin) ==
  IF id \in DOMAIN store /\ store[id].present /\ store[id].pin = pin
  THEN << store[id].key >> ELSE << >>

----------------------------------------------------------------------------
\* Request bookkeeping.

\* A new request takes the lowest free slot.
Free(p) == /\ req[p].pc = "idle"
           /\ \A q \in Slots : q < p => req[q].pc # "idle"
           /\ ops < MaxOps

Finish(p, response) ==
  /\ req' = [req EXCEPT ![p] = Idle]
  /\ out' = response

Hang(p, op) ==
  /\ req' = [req EXCEPT ![p] = Hung(op)]
  /\ out' = NoResponse

Fail(op, err) == Response(op, "error", err, NoId, NoKey, "none", << >>, << >>)
Null(op) == Response(op, "null", "", NoId, NoKey, "none", << >>, << >>)
Ok(op, id, key) == Response(op, "ok", "", id, key, "none", << >>, << >>)

Bump(bag, id) == [bag EXCEPT ![id] = @ + 1]

----------------------------------------------------------------------------
\* popBackupKey -> popPSKKey(BACKUP).

\* popPSKKey up to the fetch: an empty pool throws.
popBackupKey_Fetch(p) ==
  /\ Free(p)
  /\ ops' = ops + 1
  /\ IF FetchHangs(sync, "backup")
     THEN Hang(p, "popBackupKey")
     ELSE IF Len(fetchPSKKeys(sync, "backup")) = 0
          THEN Finish(p, Fail("popBackupKey", "No backup key available to pop"))
          ELSE /\ req' = [req EXCEPT ![p] =
                           [pc |-> "pop_store", pskKeys |-> fetchPSKKeys(sync, "backup")]]
               /\ out' = NoResponse
  /\ UNCHANGED << storageVars, asset, sync, keys, nextRec, issued, usedRec, reloaded >>

\* popPSKKey from pskKeys.pop() on: the remainder is stored, the key returned.
popBackupKey_Store(p) ==
  /\ req[p].pc = "pop_store"
  /\ LET key == ArrayPop(req[p].pskKeys)
     IN /\ sync' = storePSKKeys(sync, "backup", ArrayPopRest(req[p].pskKeys))
        /\ issued' = Bump(issued, key.id)
        /\ Finish(p, Ok("popBackupKey", key.id, key.key))
  /\ UNCHANGED << storageVars, asset, keys, ops, nextRec, usedRec, reloaded >>

\* What popBackupKey of src/recovery.ts returns: the popped element, a key
\* of a pool, a record of the delegation list, or undefined.
Popped(identifier, key) ==
  IF identifier = "delegation" /\ key # Undefined
  THEN Response("popBackupKeyLegacy", "ok", "", NoId, NoKey, "none", << >>, << key >>)
  ELSE Ok("popBackupKeyLegacy", key.id, key.key)

\* popBackupKey(identifier) of src/recovery.ts: the same on the entry named
\* by its argument, without the check for an empty list.
popBackupKeyLegacy_Fetch(p) ==
  /\ Free(p)
  /\ ops' = ops + 1
  /\ \E identifier \in Identifiers :
       IF fetchBackupKeysHangs(sync, identifier)
       THEN Hang(p, "popBackupKeyLegacy")
       ELSE /\ req' = [req EXCEPT ![p] =
                        [pc |-> "legacy_pop_store", identifier |-> identifier,
                         bckpKeys |-> fetchBackupKeys(sync, identifier)]]
            /\ out' = NoResponse
  /\ UNCHANGED << storageVars, asset, sync, keys, nextRec, issued, usedRec, reloaded >>

popBackupKeyLegacy_Store(p) ==
  /\ req[p].pc = "legacy_pop_store"
  /\ LET key == ArrayPop(req[p].bckpKeys)
     IN /\ sync' = storeBackupKeys(sync, req[p].identifier, ArrayPopRest(req[p].bckpKeys))
        /\ issued' = IF req[p].identifier = "backup" /\ key # Undefined
                     THEN Bump(issued, key.id) ELSE issued
        /\ Finish(p, Popped(req[p].identifier, key))
  /\ UNCHANGED << storageVars, asset, keys, ops, nextRec, usedRec, reloaded >>

----------------------------------------------------------------------------
\* syncBackupKeys and syncDelegation.

\* loadBackupKeys: the XMLHttpRequest resolves with the bundle on status 200,
\* rejects with the status otherwise; there is no onerror handler, so an
\* unreachable asset leaves the promise pending.
syncBackupKeys_Load(p) ==
  /\ Free(p)
  /\ ops' = ops + 1
  /\ \E xhr \in XhrOutcomes :
       CASE xhr = "200" ->
              /\ req' = [req EXCEPT ![p] = [pc |-> "sync_store", bckpKeys |-> BackupAsset]]
              /\ out' = NoResponse
         [] xhr = "404" -> Finish(p, Fail("syncBackupKeys", "404"))
         [] OTHER -> Hang(p, "syncBackupKeys")
  /\ UNCHANGED << storageVars, asset, sync, keys, nextRec, issued, usedRec, reloaded >>

\* storePSKKeys(BACKUP, bckpKeys): the stored pool is replaced by the bundle.
syncBackupKeys_Store(p) ==
  /\ req[p].pc = "sync_store"
  /\ sync' = storePSKKeys(sync, "backup", req[p].bckpKeys)
  /\ reloaded' = (reloaded \/ sync["backup"].present)
  /\ Finish(p, Ok("syncBackupKeys", NoId, NoKey))
  /\ UNCHANGED << storageVars, asset, keys, ops, nextRec, issued, usedRec >>

syncDelegation_Load(p) ==
  /\ Free(p)
  /\ ops' = ops + 1
  /\ \E xhr \in XhrOutcomes :
       CASE xhr = "200" ->
              /\ req' = [req EXCEPT ![p] = [pc |-> "syncdel_store", delegations |-> asset]]
              /\ out' = NoResponse
         [] xhr = "404" -> Finish(p, Fail("syncDelegation", "404"))
         [] OTHER -> Hang(p, "syncDelegation")
  /\ UNCHANGED << storageVars, asset, sync, keys, nextRec, issued, usedRec, reloaded >>

syncDelegation_Store(p) ==
  /\ req[p].pc = "syncdel_store"
  /\ sync' = storeDelegations(sync, req[p].delegations)
  /\ Finish(p, Ok("syncDelegation", NoId, NoKey))
  /\ UNCHANGED << storageVars, asset, keys, ops, nextRec, issued, usedRec, reloaded >>

----------------------------------------------------------------------------
\* createRecoveryKeys(n): n fresh private keys with fresh ids are generated
\* and stored as the "recovery" entry (n = 0 stores the empty list).
NewRecoveryKeys(from, n) ==
  [i \in 1..n |-> [id |-> R(from + i), key |-> <<"rk", from + i>>]]

createRecoveryKeys(p) ==
  /\ Free(p)
  /\ ops' = ops + 1
  /\ \E n \in 0..MaxRecKeys :
       /\ nextRec + n <= MaxRecKeys
       /\ nextRec' = nextRec + n
       /\ sync' = storePSKKeys(sync, "recovery", NewRecoveryKeys(nextRec, n))
  /\ Finish(p, Ok("createRecoveryKeys", NoId, NoKey))
  /\ UNCHANGED << storageVars, asset, keys, issued, usedRec, reloaded >>

----------------------------------------------------------------------------
\* processCredentialCreation.

\* The credential id of a creation: the backup key's id (ids are canonical
\* base64url strings, which the decode/encode pair of the handler preserves).
encCredId(bckpKey) == bckpKey.id

\* The key pair getCompatibleKey generates for the request numbered opNo.
GeneratedKey(opNo) == <<"gk", opNo>>

\* publicKeyCreationOptions.attestation: "undefined" stands for an options
\* object without the member.
Conveyances == {"none", "direct", "undefined"}

\* Mutant of AttestationSupported: the conveyance is not looked at.
AttestationSupported_Any(attestation) == TRUE

\* The creation goes on only if attestation !== 'none' is false.
AttestationSupported(attestation) == attestation = "none"

\* Up to BackupKey.get(): a conveyance other than "none" returns null; the
\* backup key is then fetched from the pool, which throws when it is empty.
processCredentialCreation_Start(p) ==
  /\ Free(p)
  /\ ops' = ops + 1
  /\ \E attestation \in Conveyances, supportRecovery \in BOOLEAN, pin \in Pins :
       IF ~AttestationSupported(attestation)
       THEN Finish(p, [Null("create") EXCEPT !.attestation = attestation])
       ELSE IF FetchHangs(sync, "backup")
            THEN Hang(p, "create")
            ELSE IF Len(fetchPSKKeys(sync, "backup")) = 0
                 THEN Finish(p, [Fail("create", "No backup key available to pop")
                                   EXCEPT !.attestation = attestation])
                 ELSE /\ req' = [req EXCEPT ![p] =
                                  [pc |-> "create_pop", pin |-> pin, opNo |-> ops + 1,
                                   attestation |-> attestation,
                                   supportRecovery |-> supportRecovery,
                                   pskKeys |-> fetchPSKKeys(sync, "backup")]]
                      /\ out' = NoResponse
  /\ UNCHANGED << storageVars, asset, sync, keys, nextRec, issued, usedRec, reloaded >>

\* BackupKey.get() completes: the pool without its last key is stored.
processCredentialCreation_Pop(p) ==
  /\ req[p].pc = "create_pop"
  /\ LET bckpKey == ArrayPop(req[p].pskKeys)
     IN /\ sync' = storePSKKeys(sync, "backup", ArrayPopRest(req[p].pskKeys))
        /\ issued' = Bump(issued, bckpKey.id)
        /\ req' = [req EXCEPT ![p] =
                    [pc |-> "create_exists", pin |-> req[p].pin, opNo |-> req[p].opNo,
                     attestation |-> req[p].attestation,
                     supportRecovery |-> req[p].supportRecovery, bckpKey |-> bckpKey]]
  /\ out' = NoResponse
  /\ UNCHANGED << storageVars, asset, keys, ops, nextRec, usedRec, reloaded >>

\* The outcome of a creation that got as far as its backup key; psk tells
\* whether the PSK extension output was attached.
CreationResponse(r, kind, err, key) ==
  [Response("create", kind, err, encCredId(r.bckpKey), key, r.pin, << >>, << >>)
     EXCEPT !.psk = r.supportRecovery, !.attestation = r.attestation]

\* Mutant of DuplicateCredential: the check is left out.
DuplicateCredential_Unchecked(store, id) == FALSE

\* Whether the creation throws "credential with id ... already exists".
DuplicateCredential(store, id) == keyExists(store, id)

\* if (await keyExists(encCredId)) throw ...
processCredentialCreation_Exists(p) ==
  /\ req[p].pc = "create_exists"
  /\ IF DuplicateCredential(keys, encCredId(req[p].bckpKey))
     THEN Finish(p, CreationResponse(req[p], "error", "already exists", NoKey))
     ELSE /\ req' = [req EXCEPT ![p].pc = "create_save"]
          /\ out' = NoResponse
  /\ UNCHANGED << storageVars, asset, sync, keys, ops, nextRec, issued, usedRec, reloaded >>

\* The private key the creation persists: compatibleKey.privateKey, the
\* freshly generated one.
CreationPrivateKey(bckpKey, opNo) == GeneratedKey(opNo)

\* saveKey(encCredId, compatibleKey.privateKey, pin) and the returned credential.
processCredentialCreation_Save(p) ==
  /\ req[p].pc = "create_save"
  /\ keys' = saveKey(keys, encCredId(req[p].bckpKey),
                     CreationPrivateKey(req[p].bckpKey, req[p].opNo), req[p].pin)
  /\ Finish(p, CreationResponse(req[p], "ok", "",
                                CreationPrivateKey(req[p].bckpKey, req[p].opNo)))
  /\ UNCHANGED << storageVars, asset, sync, ops, nextRec, issued, usedRec, reloaded >>

----------------------------------------------------------------------------
\* The recovery flow.

\* getDelegation: del[0] when some record has the requested backupId, null
\* (here << >>) when none has.
getDelegation(del, credentialId) ==
  LET rec == SelectSeq(del, LAMBDA x : x.backupId = credentialId)
  IN IF Len(rec) # 0 THEN << del[1] >> ELSE << >>

\* getRecoveryKey: the first recovery key with the given id, null when none.
getRecoveryKey(rks, credentialId) ==
  LET rk == SelectSeq(rks, LAMBDA x : x.id = credentialId)
  IN IF Len(rk) # 0 THEN << rk[1] >> ELSE << >>

\* The origins requests come from, the origin recover works with, and the
\* rpId member of the request options ("" when the options have none).
OverrideOrigin == "http://localhost:9005"
HomeOrigin == "https://example.com"
Origins == {HomeOrigin, "https://login.example.org:8443"}
RpIdOptions == {"", "rp.example"}

\* getDomainFromOrigin: the host name of the origin, without scheme and port.
getDomainFromOrigin(origin) ==
  CASE origin = HomeOrigin -> "example.com"
    [] origin = "https://login.example.org:8443" -> "login.example.org"
    [] origin = "http://localhost:9005" -> "localhost"

\* rpID = publicKeyRequestOptions.rpId || getDomainFromOrigin(origin).
rpID(rpId, origin) == IF rpId # "" THEN rpId ELSE getDomainFromOrigin(origin)

\* origin = 'http://localhost:9005': recover replaces its origin argument.
RecoveryOrigin(origin) == OverrideOrigin

\* What recover answers.  r holds the arguments of the call (callerOrigin,
\* rpId, allowCredentials, psk, pin) and origin, the origin recover works
\* with; the client data and the authenticator data exist only in a
\* credential that is returned.
RecoverResponse(r, kind, err, id, key, delegation) ==
  [Response("recover", kind, err, id, key, r.pin, r.allowCredentials, delegation)
     EXCEPT !.psk = r.psk, !.callerOrigin = r.callerOrigin, !.rpIdOption = r.rpId,
            !.clientOrigin = IF kind = "ok" THEN r.origin ELSE "n/a",
            !.rpID = IF kind = "ok" THEN rpID(r.rpId, r.origin) ELSE "n/a"]

\* recover up to getDelegation: the origin is replaced, only
\* allowCredentials[0] is considered; a null delegation makes
\* del.replacementId throw a TypeError.
recover_Delegation(p, callerOrigin, rpId, allowCredentials, psk, pin) ==
  LET r == [pin |-> pin, psk |-> psk, callerOrigin |-> callerOrigin, rpId |-> rpId,
            origin |-> RecoveryOrigin(callerOrigin),
            allowCredentials |-> allowCredentials]
  IN IF Len(allowCredentials) = 0
     THEN Finish(p, RecoverResponse(r, "error", "TypeError", NoId, NoKey, << >>))
     ELSE IF fetchDelegationsHangs(sync)
          THEN Hang(p, "recover")
          ELSE LET del == getDelegation(fetchDelegations(sync), allowCredentials[1])
               IN IF Len(del) = 0
                  THEN Finish(p, RecoverResponse(r, "error", "TypeError", NoId, NoKey, << >>))
                  ELSE /\ req' = [req EXCEPT ![p] =
                                   [pc |-> "recover_key", pin |-> pin, psk |-> psk,
                                    callerOrigin |-> callerOrigin, rpId |-> rpId,
                                    origin |-> r.origin,
                                    allowCredentials |-> allowCredentials,
                                    delegation |-> del[1]]]
                       /\ out' = NoResponse

\* getRecoveryOptions from getRecoveryKey on: a null recovery key makes
\* recOps.recoveryKey.key throw a TypeError.
recover_RecoveryKey(p) ==
  /\ req[p].pc = "recover_key"
  /\ IF FetchHangs(sync, "recovery")
     THEN Hang(p, "recover")
     ELSE LET rk == getRecoveryKey(fetchPSKKeys(sync, "recovery"),
                                   req[p].delegation.replacementId)
          IN IF Len(rk) = 0
             THEN Finish(p, RecoverResponse(req[p], "error", "TypeError", NoId, NoKey, << >>))
             ELSE /\ req' = [req EXCEPT ![p] =
                              [pc |-> "recover_save", pin |-> req[p].pin,
                               psk |-> req[p].psk,
                               callerOrigin |-> req[p].callerOrigin,
                               rpId |-> req[p].rpId, origin |-> req[p].origin,
                               allowCredentials |-> req[p].allowCredentials,
                               delegation |-> req[p].delegation,
                               recoveryKey |-> rk[1]]]
                  /\ out' = NoResponse
  /\ UNCHANGED << storageVars, asset, sync, keys, ops, nextRec, issued, usedRec, reloaded >>

\* The id saveKey persists the recovery private key under.
RecoverySaveId(recOps) == recOps.recoveryKey.id

\* The id and rawId of the recovery response: recOps.recoveryKey.id.
RecoveryResponseId(recOps) == recOps.recoveryKey.id

\* saveKey(recOps.recoveryKey.id, rkPrv.privateKey, pin).  No behaviour gets
\* here: getRecoveryKey returns a key only from a pool that fetchPSKKeys can
\* import, and every key createRecoveryKeys stores is a private key.  The
\* step and the one after it are therefore no disjuncts of a next-state
\* relation.
recover_Save(p) ==
  /\ req[p].pc = "recover_save"
  /\ keys' = saveKey(keys, RecoverySaveId(req[p]), req[p].recoveryKey.key, req[p].pin)
  /\ usedRec' = Bump(usedRec, req[p].recoveryKey.id)
  /\ req' = [req EXCEPT ![p].pc = "recover_sign"]
  /\ out' = NoResponse
  /\ UNCHANGED << storageVars, asset, sync, ops, nextRec, issued, reloaded >>

\* The client data, the authenticator data with the delegation as extension
\* output, the signature under the recovery key and the returned credential.
recover_Sign(p) ==
  /\ req[p].pc = "recover_sign"
  /\ Finish(p, RecoverResponse(req[p], "ok", "", RecoveryResponseId(req[p]),
                            req[p].recoveryKey.key, << req[p].delegation >>))
  /\ UNCHANGED << storageVars, asset, sync, keys, ops, nextRec, issued, usedRec,
                  reloaded >>

----------------------------------------------------------------------------
\* processCredentialRequest.

\* reqExt !== undefined && reqExt.hasOwnProperty(PSK): psk tells whether the
\* request's extension map holds the reserved key.
RecoveryRequested(psk) == psk

\* The outcome of the scan of the offered ids; the client data carry the
\* origin of the call and the authenticator data the rpID resolved from it.
RequestResponse(r, kind, err, id, key) ==
  [Response("get", kind, err, id, key, r.pin, r.allowCredentials, << >>)
     EXCEPT !.psk = r.psk, !.callerOrigin = r.origin, !.rpIdOption = r.rpId,
            !.clientOrigin = IF kind = "ok" THEN r.origin ELSE "n/a",
            !.rpID = IF kind = "ok" THEN rpID(r.rpId, r.origin) ELSE "n/a"]

\* No allowCredentials returns null; the PSK extension hands the request to
\* recover; otherwise the scan of the offered ids starts.
processCredentialRequest_Dispatch(p, origin, rpId, allow, psk, pin) ==
  IF ~allow.present
  THEN Finish(p, Null("get"))
  ELSE IF RecoveryRequested(psk)
       THEN recover_Delegation(p, origin, rpId, allow.list, psk, pin)
       ELSE IF Len(allow.list) = 0
            THEN Finish(p, RequestResponse([pin |-> pin, psk |-> psk,
                                            origin |-> origin, rpId |-> rpId,
                                            allowCredentials |-> allow.list],
                                           "error", "not found", NoId, NoKey))
            ELSE /\ req' = [req EXCEPT ![p] =
                             [pc |-> "get_loop", pin |-> pin, i |-> 1, psk |-> psk,
                              origin |-> origin, rpId |-> rpId,
                              allowCredentials |-> allow.list]]
                 /\ out' = NoResponse

processCredentialRequest_Start(p) ==
  /\ Free(p)
  /\ ops' = ops + 1
  /\ \E allow \in AllowOptions, psk \in BOOLEAN, pin \in Pins :
       processCredentialRequest_Dispatch(p, HomeOrigin, "", allow, psk, pin)
  /\ UNCHANGED << storageVars, asset, sync, keys, nextRec, issued, usedRec, reloaded >>

\* The same handler for requests that carry the PSK extension, from any of
\* the origins, with or without the rpId member.
processCredentialRequest_StartFrom(p) ==
  /\ Free(p)
  /\ ops' = ops + 1
  /\ \E origin \in Origins, rpId \in RpIdOptions, allow \in AllowOptions, pin \in Pins :
       processCredentialRequest_Dispatch(p, origin, rpId, allow, TRUE, pin)
  /\ UNCHANGED << storageVars, asset, sync, keys, nextRec, issued, usedRec, reloaded >>

\* The same handler for requests without the PSK extension that offer
\* several candidates.
processCredentialRequest_StartList(p) ==
  /\ Free(p)
  /\ ops' = ops + 1
  /\ \E allow \in AllowLists, pin \in Pins :
       processCredentialRequest_Dispatch(p, HomeOrigin, "", allow, FALSE, pin)
  /\ UNCHANGED << storageVars, asset, sync, keys, nextRec, issued, usedRec, reloaded >>

\* Mutant of FetchedKey: the PIN the key was stored with is passed on in
\* place of the request's.
FetchedKey_StoredPin(store, id, pin) == fetchKey(store, id, store[id].pin)

\* key = await fetchKey(encCredId, pin).catch((_) => null): << >> is null.
FetchedKey(store, id, pin) == fetchKey(store, id, pin)

\* Mutant of ScanStops: the scan never breaks.
ScanStops_Never(key) == FALSE

\* if (key) break: the scan stops at the first candidate whose key was fetched.
ScanStops(key) == Len(key) # 0

\* Mutant of KeysAfterScan: a candidate whose key does not unwrap under the
\* request's PIN is removed from the store.
KeysAfterScan_DropOnFailure(store, id, key) ==
  IF Len(key) = 0 /\ store[id].present THEN [store EXCEPT ![id] = NoKeyEntry] ELSE store

\* The credential store after an iteration of the scan: the loop calls
\* fetchKey and nothing that writes.
KeysAfterScan(store, id, key) == store

\* One iteration of the scan: fetchKey(encCredId, pin), null when it rejects;
\* the scan breaks at the first key found and throws when none is.  The key
\* found is held while the assertion is built.
processCredentialRequest_Loop(p) ==
  /\ req[p].pc = "get_loop"
  /\ LET encId == req[p].allowCredentials[req[p].i]
         key == FetchedKey(keys, encId, req[p].pin)
     IN /\ keys' = KeysAfterScan(keys, encId, key)
        /\ IF ScanStops(key)
           THEN /\ req' = [req EXCEPT ![p] =
                            [pc |-> "get_sign", pin |-> req[p].pin, psk |-> req[p].psk,
                             origin |-> req[p].origin, rpId |-> req[p].rpId,
                             allowCredentials |-> req[p].allowCredentials,
                             encCredId |-> encId, key |-> key[1]]]
                /\ out' = NoResponse
           ELSE IF req[p].i = Len(req[p].allowCredentials)
                THEN Finish(p, RequestResponse(req[p], "error", "not found", NoId, NoKey))
                ELSE /\ req' = [req EXCEPT ![p].i = @ + 1]
                     /\ out' = NoResponse
  /\ UNCHANGED << storageVars, asset, sync, ops, nextRec, issued, usedRec, reloaded >>

\* The client data, the authenticator data and the signature under the key
\* the scan fetched, and the returned credential with id encCredId; the
\* credential store is not read again.
processCredentialRequest_Sign(p) ==
  /\ req[p].pc = "get_sign"
  /\ Finish(p, RequestResponse(req[p], "ok", "", req[p].encCredId, req[p].key))
  /\ UNCHANGED << storageVars, asset, sync, keys, ops, nextRec, issued, usedRec,
                  reloaded >>

----------------------------------------------------------------------------
\* The auth_storage module: wrapped export of credential sources.

\* The names the entries of chrome.storage.local are stored under, the
\* endpoint used when none is stored, and the PIN the wrapping key is derived
\* from (all of ./constants).
BD_ENDPOINT == "bd_endpoint"
BACKUP_KEY == "backup_key"
DEFAULT_BD_ENDPOINT == "default endpoint"
PIN == "pin"
\* Bounds: the byte lengths of the salt and of the IV.
saltLength == 2
ivLength == 1

Endpoints == {"endpointA", "endpointB"}
RpIds == {"rpA", "rpB"}
CredIds == {"c1", "c2"}
LocalKeys == RpIds \cup {BD_ENDPOINT, BACKUP_KEY}

\* What an AES-GCM ciphertext stands for: the wrapped key material with the
\* key type (kty) of its JWK, and the PIN, salt and IV it can be unwrapped
\* with.
NoCipher == [key |-> NoKey, kty |-> "none", pin |-> "none", salt |-> << >>, iv |-> << >>]
\* One byte of a Uint8Array: t is "u8" for a byte with value n, and "ct" for
\* the ciphertext, which is kept in one piece.
Byte(n) == [t |-> "u8", n |-> n, c |-> NoCipher]
\* Uint8Array.of: each value is taken modulo 256.
Uint8ArrayOf(a, b, c) == << Byte(a % 256), Byte(b % 256), Byte(c % 256) >>
\* window.crypto.getRandomValues(new Uint8Array(n)), every byte drawn as r.
getRandomValues(n, r) == [i \in 1..n |-> Byte(r)]
\* The draws (salt byte, IV byte) of one export.
RandomDraws == { << 0, 1 >>, << 1, 0 >> }

Min(a, b) == IF a < b THEN a ELSE b
\* TypedArray.prototype.subarray(begin, end), with 0-based clamped indices.
subarray(bytes, begin, end) ==
  LET lo == Min(begin, Len(bytes))
      hi == Min(end, Len(bytes))
  IN IF hi <= lo THEN << >> ELSE SubSeq(bytes, lo + 1, hi)
concatenate(a, b, c, d, e) == a \o b \o c \o d \o e

\* byteArrayToBase64 / base64ToByteArray of ./utils: a string that stands for
\* the bytes, and the bytes of such a string.
byteArrayToBase64(bytes) == [base64 |-> bytes]
base64ToByteArray(str) == str.base64

\* The key algorithms and new TextEncoder().encode(JSON.stringify(algorithm)).
KeyAlgorithms == {"ECDSA", "RSASSA-PKCS1-v1_5"}
EncodedAlgorithm(algorithm) ==
  IF algorithm = "ECDSA" THEN << Byte(69), Byte(67) >>
                         ELSE << Byte(82), Byte(83), Byte(65) >>
\* JSON.parse(new TextDecoder().decode(bytes)): << algorithm >>, or << >> when
\* the bytes are no descriptor (a SyntaxError).
DecodedAlgorithm(bytes) ==
  LET found == { a \in KeyAlgorithms : EncodedAlgorithm(a) = bytes }
  IN IF found = {} THEN << >> ELSE << CHOOSE a \in found : TRUE >>

\* The key type a JWK has for a key of the algorithm, and the one importKey
\* asks of a JWK it is to import as a key of the algorithm.
JwkKty(algorithm) == IF algorithm = "ECDSA" THEN "EC" ELSE "RSA"

\* getWrappingKey(pin, salt): PBKDF2 then AES-GCM key, determined by both.
getWrappingKey(pin, salt) == [pin |-> pin, salt |-> salt]

\* crypto.subtle.wrapKey(keyExportFormat, key, wrappingKey,
\* {iv, name: 'AES-GCM'}): the encrypted JWK of the key.
wrapKey(privateKey, wrappingKey, iv) ==
  << [t |-> "ct", n |-> 0,
      c |-> [key |-> privateKey.key, kty |-> JwkKty(privateKey.algorithm),
             pin |-> wrappingKey.pin, salt |-> wrappingKey.salt, iv |-> iv]] >>

\* crypto.subtle.unwrapKey(keyExportFormat, keyBytes, wrappingKey, {iv, ...},
\* algorithm, true, ['sign']): << key >> when the ciphertext authenticates
\* under the wrapping key and IV and the JWK it decrypts to is one of a key
\* of the algorithm, << >> when it rejects (OperationError, DataError).
unwrapKey(keyBytes, wrappingKey, iv, algorithm) ==
  IF /\ Len(keyBytes) = 1
     /\ keyBytes[1].t = "ct"
     /\ keyBytes[1].c.pin = wrappingKey.pin
     /\ keyBytes[1].c.salt = wrappingKey.salt
     /\ keyBytes[1].c.iv = iv
     /\ keyBytes[1].c.kty = JwkKty(algorithm)
  THEN << [key |-> keyBytes[1].c.key, algorithm |-> algorithm] >>
  ELSE << >>

\* userHandle: null, a Uint8Array, or the plain object JSON.parse yields for
\* a stringified Uint8Array.
NullHandle == [kind |-> "null", bytes |-> << >>]
Uint8Handle == [kind |-> "Uint8Array", bytes |-> << 1, 2 >>]
\* JSON.stringify followed by JSON.parse, on a userHandle.
JsonHandle(userHandle) ==
  IF userHandle.kind = "Uint8Array"
  THEN [kind |-> "Object", bytes |-> userHandle.bytes]
  ELSE userHandle

\* new PublicKeyCredentialSource(id, privateKey, rpId, userHandle).
PublicKeyCredentialSource(id, privateKey, rpId, userHandle) ==
  [id |-> id, privateKey |-> privateKey, rpId |-> rpId,
   userHandle |-> userHandle, type |-> "public-key"]

\* The credential sources handed to put.
CredentialSources ==
  { PublicKeyCredentialSource("c1", [key |-> <<"pk", 1>>, algorithm |-> "ECDSA"],
                              "rpA", NullHandle),
    PublicKeyCredentialSource("c1", [key |-> <<"pk", 2>>,
                                     algorithm |-> "RSASSA-PKCS1-v1_5"],
                              "rpA", Uint8Handle),
    PublicKeyCredentialSource("c2", [key |-> <<"pk", 3>>, algorithm |-> "ECDSA"],
                              "rpB", NullHandle) }

\* The calls put(rpId, credSrc) of the model: rpId is an argument of its own,
\* equal to the rpId the record carries or not.
PutCalls ==
  { c \in RpIds \X CredentialSources : c[1] = "rpA" \/ c[2].privateKey.key = <<"pk", 1>> }

\* Mutant of ExportHeader: the salt and IV lengths are written in the other
\* order.
ExportHeader_Swapped(keyAlgorithm) ==
  Uint8ArrayOf(ivLength, saltLength, Len(keyAlgorithm))

\* Uint8Array.of(saltLength, ivLength, keyAlgorithm.length).
ExportHeader(keyAlgorithm) ==
  Uint8ArrayOf(saltLength, ivLength, Len(keyAlgorithm))

\* PublicKeyCredentialSource.export, with the random draws r of salt and IV.
export(credSrc, r) ==
  LET salt == getRandomValues(saltLength, r[1])
      wrappingKey == getWrappingKey(PIN, salt)
      iv == getRandomValues(ivLength, r[2])
      wrappedKey == wrapKey(credSrc.privateKey, wrappingKey, iv)
      keyAlgorithm == EncodedAlgorithm(credSrc.privateKey.algorithm)
      payload == concatenate(ExportHeader(keyAlgorithm), salt, iv,
                             keyAlgorithm, wrappedKey)
  IN [id |-> credSrc.id, privateKey |-> byteArrayToBase64(payload),
      rpId |-> credSrc.rpId, userHandle |-> credSrc.userHandle,
      type |-> credSrc.type]

\* The segments import cuts the payload into.
ImportSegments(keyPayload) ==
  LET saltByteLength == keyPayload[1].n
      ivByteLength == keyPayload[2].n
      keyAlgorithmByteLength == keyPayload[3].n
      o1 == 3
      o2 == o1 + saltByteLength
      o3 == o2 + ivByteLength
      o4 == o3 + keyAlgorithmByteLength
  IN [salt |-> subarray(keyPayload, o1, o2),
      iv |-> subarray(keyPayload, o2, o3),
      keyAlgorithmBytes |-> subarray(keyPayload, o3, o4),
      keyBytes |-> subarray(keyPayload, o4, Len(keyPayload))]

\* PublicKeyCredentialSource.import: << credential source >>, or << >> when
\* JSON.parse of the descriptor or unwrapKey throws.
import(json) ==
  LET seg == ImportSegments(base64ToByteArray(json.privateKey))
      wrappingKey == getWrappingKey(PIN, seg.salt)
      unwrappingKeyAlgorithm == DecodedAlgorithm(seg.keyAlgorithmBytes)
  IN IF Len(unwrappingKeyAlgorithm) = 0
     THEN << >>
     ELSE LET privateKey == unwrapKey(seg.keyBytes, wrappingKey, seg.iv,
                                      unwrappingKeyAlgorithm[1])
          IN IF Len(privateKey) = 0
             THEN << >>
             ELSE << PublicKeyCredentialSource(json.id, privateKey[1], json.rpId,
                                               json.userHandle) >>

----------------------------------------------------------------------------
\* The auth_storage module: CredentialsMap and the endpoint of PSKStorage.

\* An entry of chrome.storage.local: << >> when nothing is stored under the
\* name, << value >> otherwise.
NoEntry == << >>
\* chrome.storage.local.get({[name]: null}): the object handed to the
\* callback has the requested name only.
StorageGet(store, name) == [k \in {name} |-> store[k]]
\* Mutant of EntryIsNull: the member is compared with undefined only.
EntryIsNull_Undefined(resp, name) == name \notin DOMAIN resp

\* resp[name] == null: the member is missing, or nothing is stored.
EntryIsNull(resp, name) == name \notin DOMAIN resp \/ Len(resp[name]) = 0

\* JSON.stringify of the exported records, read back by JSON.parse.
JSONstringify(jsonArr) ==
  [i \in 1..Len(jsonArr) |-> [jsonArr[i] EXCEPT !.userHandle = JsonHandle(@)]]
JSONparse(exportJSON) == exportJSON

\* The answer of a call of this module.
StorageResponse(op, kind, rpId, credSrcId, value) ==
  [op |-> op, kind |-> kind, rpId |-> rpId, credSrcId |-> credSrcId, value |-> value]

\* CredentialsMap.exists.
exists(store, rpId) == ~EntryIsNull(StorageGet(store, rpId), rpId)

\* Whether CredentialsMap.load never settles: JSON.parse(null).length or an
\* import throws inside the storage callback.
LoadHangs(store, rpId) ==
  LET resp == StorageGet(store, rpId)
  IN /\ ~EntryIsNull(resp, rpId)
     /\ \/ Len(resp[rpId]) = 0
        \/ \E i \in 1..Len(JSONparse(resp[rpId][1])) :
             Len(import(JSONparse(resp[rpId][1])[i])) = 0

\* Mutant of load: the stored records are pushed in front of the result.
load_Reversed(store, rpId) ==
  LET resp == StorageGet(store, rpId)
  IN IF EntryIsNull(resp, rpId)
     THEN << >>
     ELSE LET exportJSON == JSONparse(resp[rpId][1])
          IN [i \in 1..Len(exportJSON) |->
                import(exportJSON[Len(exportJSON) + 1 - i])[1]]

\* CredentialsMap.load: the empty list when nothing is stored under rpId,
\* the imported records in stored order otherwise.
load(store, rpId) ==
  LET resp == StorageGet(store, rpId)
  IN IF EntryIsNull(resp, rpId)
     THEN << >>
     ELSE LET exportJSON == JSONparse(resp[rpId][1])
          IN [i \in 1..Len(exportJSON) |-> import(exportJSON[i])[1]]

\* Mutant of lookup: the last matching record is returned.
lookup_Last(credSrcs, credSrcId) ==
  LET res == SelectSeq(credSrcs, LAMBDA x : x.id = credSrcId)
  IN IF Len(res) = 0 THEN << >> ELSE << res[Len(res)] >>

\* CredentialsMap.lookup on the loaded records: null (<< >>) or res[0].
lookup(credSrcs, credSrcId) ==
  LET res == SelectSeq(credSrcs, LAMBDA x : x.id = credSrcId)
  IN IF Len(res) = 0 THEN << >> ELSE << res[1] >>

\* A put is in flight in a slot other than p.
PutInFlight(p) ==
  \E q \in Slots \ {p} : req[q].pc \in {"put_load", "put_set"}

\* CredentialsMap.put(rpId, credSrc) up to the answer of exists; the entry is
\* named by the argument rpId, whatever rpId the record itself carries.
CredentialsMap_put_Exists(p) ==
  /\ Free(p)
  /\ ops' = ops + 1
  /\ \E call \in PutCalls :
       LET rpId == call[1]
           credSrc == call[2]
       IN req' = [req EXCEPT ![p] =
                   IF exists(local, rpId)
                   THEN [pc |-> "put_load", rpId |-> rpId, credSrc |-> credSrc]
                   ELSE [pc |-> "put_set", rpId |-> rpId, credSrc |-> credSrc,
                         credSrcs |-> << credSrc >>]]
  /\ putLog' = [putLog EXCEPT !.overlapped = @ \/ PutInFlight(p)]
  /\ out' = NoResponse
  /\ UNCHANGED << authVars, local >>

\* entries = await this.load(rpId); entries.push(credSrc).
CredentialsMap_put_Load(p) ==
  /\ req[p].pc = "put_load"
  /\ IF LoadHangs(local, req[p].rpId)
     THEN Hang(p, "put")
     ELSE /\ req' = [req EXCEPT ![p] =
                      [pc |-> "put_set", rpId |-> req[p].rpId, credSrc |-> req[p].credSrc,
                       credSrcs |-> Append(load(local, req[p].rpId), req[p].credSrc)]]
          /\ out' = NoResponse
  /\ UNCHANGED << authVars, ops, local, putLog >>

\* Mutant of PutCredSrcs: the entry is read again at the time of writing.
PutCredSrcs_Reread(store, r) ==
  IF exists(store, r.rpId) /\ ~LoadHangs(store, r.rpId)
  THEN Append(load(store, r.rpId), r.credSrc)
  ELSE << r.credSrc >>

\* The list put writes is credSrcs as built from its own earlier reads; the
\* store is not looked at again before chrome.storage.local.set.
PutCredSrcs(store, r) == r.credSrcs

\* Every record is exported and the list is stored under rpId.
CredentialsMap_put_Set(p) ==
  /\ req[p].pc = "put_set"
  /\ LET credSrcs == PutCredSrcs(local, req[p])
     IN \E r \in [1..Len(credSrcs) -> RandomDraws] :
          LET jsonArr == [i \in 1..Len(credSrcs) |-> export(credSrcs[i], r[i])]
          IN local' = [local EXCEPT ![req[p].rpId] = << JSONstringify(jsonArr) >>]
  /\ putLog' = [putLog EXCEPT !.log[req[p].rpId] = Append(@, req[p].credSrc)]
  /\ Finish(p, StorageResponse("put", "ok", req[p].rpId, req[p].credSrc.id, << >>))
  /\ UNCHANGED << authVars, ops >>

\* CredentialsMap.load up to the callback of chrome.storage.local.get: an
\* absent entry is answered with the empty list at once; otherwise the
\* response of the get is kept while JSON.parse and import are awaited.
CredentialsMap_load_Get(p) ==
  /\ Free(p)
  /\ ops' = ops + 1
  /\ \E rpId \in RpIds :
       LET resp == StorageGet(local, rpId)
       IN IF EntryIsNull(resp, rpId)
          THEN Finish(p, StorageResponse("load", "ok", rpId, "", << >>))
          ELSE /\ req' = [req EXCEPT ![p] =
                           [pc |-> "load_import", rpId |-> rpId, resp |-> resp]]
               /\ out' = NoResponse
  /\ UNCHANGED << authVars, local, putLog >>

\* The records of the response are imported and the promise is resolved
\* with them; an import that throws leaves it pending.
CredentialsMap_load_Import(p) ==
  /\ req[p].pc = "load_import"
  /\ IF LoadHangs(req[p].resp, req[p].rpId)
     THEN Hang(p, "load")
     ELSE Finish(p, StorageResponse("load", "ok", req[p].rpId, "",
                                    load(req[p].resp, req[p].rpId)))
  /\ UNCHANGED << authVars, ops, local, putLog >>

\* CredentialsMap.lookup up to the callback of the get of its load: for an
\* absent entry the load resolves with the empty list in the callback and
\* lookup answers null in the same task; otherwise the response of the get
\* is kept while JSON.parse and import are awaited.
CredentialsMap_lookup_Load(p) ==
  /\ Free(p)
  /\ ops' = ops + 1
  /\ \E rpId \in RpIds, credSrcId \in CredIds :
       LET resp == StorageGet(local, rpId)
       IN IF EntryIsNull(resp, rpId)
          THEN Finish(p, StorageResponse("lookup", "ok", rpId, credSrcId,
                                         lookup(<< >>, credSrcId)))
          ELSE /\ req' = [req EXCEPT ![p] =
                           [pc |-> "lookup_filter", rpId |-> rpId,
                            credSrcId |-> credSrcId, resp |-> resp]]
               /\ out' = NoResponse
  /\ UNCHANGED << authVars, local, putLog >>

\* The load settles with the records of the response and lookup answers
\* with the filtered list; an import that throws leaves both pending.
CredentialsMap_lookup_Filter(p) ==
  /\ req[p].pc = "lookup_filter"
  /\ IF LoadHangs(req[p].resp, req[p].rpId)
     THEN Hang(p, "lookup")
     ELSE Finish(p, StorageResponse("lookup", "ok", req[p].rpId, req[p].credSrcId,
                                    lookup(load(req[p].resp, req[p].rpId),
                                           req[p].credSrcId)))
  /\ UNCHANGED << authVars, ops, local, putLog >>

CredentialsMap_exists(p) ==
  /\ Free(p)
  /\ ops' = ops + 1
  /\ \E rpId \in RpIds :
       Finish(p, StorageResponse("exists", "ok", rpId, "", exists(local, rpId)))
  /\ UNCHANGED << authVars, local, putLog >>

\* PSKStorage.setBDEndpoint: the endpoint is stored, the promise resolves
\* without a value.
setBDEndpoint(p) ==
  /\ Free(p)
  /\ ops' = ops + 1
  /\ \E endpoint \in Endpoints :
       /\ local' = [local EXCEPT ![BD_ENDPOINT] = << endpoint >>]
       /\ Finish(p, StorageResponse("setBDEndpoint", "ok", "", "", << >>))
  /\ UNCHANGED << authVars, putLog >>

\* PSKStorage.getBDEndpoint: the entry BD_ENDPOINT is requested, the member
\* BACKUP_KEY of the answer is looked at.
getBDEndpoint(p) ==
  /\ Free(p)
  /\ ops' = ops + 1
  /\ LET resp == StorageGet(local, BD_ENDPOINT)
     IN IF EntryIsNull(resp, BACKUP_KEY)
        THEN Finish(p, StorageResponse("getBDEndpoint", "ok", "", "", DEFAULT_BD_ENDPOINT))
        ELSE Finish(p, StorageResponse("getBDEndpoint", "ok", "", "", resp[BACKUP_KEY][1]))
  /\ UNCHANGED << authVars, local, putLog >>

\* The backup keys PSKStorage is handed: lists of BackupKey objects (id and
\* CryptoKey).
StoredBackupKeyLists == { << BackupAsset[i] >> : i \in 1..Len(BackupAsset) }

\* JSON.stringify of a BackupKey list: a CryptoKey has no enumerable
\* property of its own and is written as {}.
EmptyObject == <<"{}", 0>>
StringifyBackupKeys(backupKeys) ==
  [i \in 1..Len(backupKeys) |-> [id |-> backupKeys[i].id, key |-> EmptyObject]]

\* PSKStorage.existBackupKeys.
existBackupKeys(store) == ~EntryIsNull(StorageGet(store, BACKUP_KEY), BACKUP_KEY)

\* PSKStorage.loadBackupKeys: the empty list when nothing is stored, the
\* parsed entry otherwise.
PSKStorage_loadBackupKeys(store) ==
  LET resp == StorageGet(store, BACKUP_KEY)
  IN IF EntryIsNull(resp, BACKUP_KEY) THEN << >> ELSE resp[BACKUP_KEY][1]

\* PSKStorage.storeBackupKeys(backupKeys, override) up to the answer of
\* existBackupKeys.
storeBackupKeys_Exist(p) ==
  /\ Free(p)
  /\ ops' = ops + 1
  /\ \E backupKeys \in StoredBackupKeyLists, override \in BOOLEAN :
       req' = [req EXCEPT ![p] =
                [pc |-> IF existBackupKeys(local) /\ ~override
                        THEN "sbk_load" ELSE "sbk_set",
                 backupKeys |-> backupKeys]]
  /\ out' = NoResponse
  /\ UNCHANGED << authVars, local, putLog >>

\* backupKeys = entries.concat(backupKeys) with the entries just loaded.
storeBackupKeys_Load(p) ==
  /\ req[p].pc = "sbk_load"
  /\ req' = [req EXCEPT ![p] =
              [pc |-> "sbk_set",
               backupKeys |-> PSKStorage_loadBackupKeys(local) \o req[p].backupKeys]]
  /\ out' = NoResponse
  /\ UNCHANGED << authVars, ops, local, putLog >>

\* chrome.storage.local.set({[BACKUP_KEY]: exportJSON}).
storeBackupKeys_Set(p) ==
  /\ req[p].pc = "sbk_set"
  /\ local' = [local EXCEPT ![BACKUP_KEY] = << StringifyBackupKeys(req[p].backupKeys) >>]
  /\ Finish(p, StorageResponse("storeBackupKeys", "ok", "", "", << >>))
  /\ UNCHANGED << authVars, ops, putLog >>

\* PSKStorage.loadBackupKeys as a call of its own.
loadBackupKeys(p) ==
  /\ Free(p)
  /\ ops' = ops + 1
  /\ Finish(p, StorageResponse("loadBackupKeys", "ok", "", "",
                               PSKStorage_loadBackupKeys(local)))
  /\ UNCHANGED << authVars, local, putLog >>

----------------------------------------------------------------------------
\* The storage of a fresh profile, and the storage once the extension has run
\* syncBackupKeys and syncDelegation for the first time.
Pristine == [k \in {"backup", "recovery", "delegation"} |-> Absent]
Installed(a) == storeDelegations(storePSKKeys(Pristine, "backup", BackupAsset), a)

Init ==
  /\ asset \in DelegationAssets
  /\ sync \in {Pristine, Installed(asset)}
  /\ keys = [id \in AllIds |-> NoKeyEntry]
  /\ req = [p \in Slots |-> Idle]
  /\ out = NoResponse
  /\ ops = 0
  /\ nextRec = 0
  /\ issued = [id \in BackupIds |-> 0]
  /\ usedRec = [id \in RecIds |-> 0]
  /\ reloaded = FALSE
  /\ local = [k \in LocalKeys |-> NoEntry]
  /\ putLog = [log |-> [rp \in RpIds |-> << >>], overlapped |-> FALSE]

Next ==
  \E p \in Slots :
    \/ popBackupKey_Fetch(p)
    \/ popBackupKey_Store(p)
    \/ popBackupKeyLegacy_Fetch(p)
    \/ popBackupKeyLegacy_Store(p)
    \/ syncBackupKeys_Load(p)
    \/ syncBackupKeys_Store(p)
    \/ syncDelegation_Load(p)
    \/ syncDelegation_Store(p)
    \/ createRecoveryKeys(p)
    \/ processCredentialCreation_Start(p)
    \/ processCredentialCreation_Pop(p)
    \/ processCredentialCreation_Exists(p)
    \/ processCredentialCreation_Save(p)
    \/ processCredentialRequest_Start(p)
    \/ processCredentialRequest_Loop(p)
    \/ processCredentialRequest_Sign(p)
    \/ recover_RecoveryKey(p)

Spec == Init /\ [][Next]_vars

\* The creation and assertion handlers alone, with assertion requests that
\* offer lists of candidates.
AssertionNext ==
  \E p \in Slots :
    \/ processCredentialCreation_Start(p)
    \/ processCredentialCreation_Pop(p)
    \/ processCredentialCreation_Exists(p)
    \/ processCredentialCreation_Save(p)
    \/ processCredentialRequest_StartList(p)
    \/ processCredentialRequest_Loop(p)
    \/ processCredentialRequest_Sign(p)

AssertionSpec == Init /\ [][AssertionNext]_vars

\* The recovery flow with requests from several origins, with and without
\* the rpId member.
RecoveryNext ==
  \E p \in Slots :
    \/ syncDelegation_Load(p)
    \/ syncDelegation_Store(p)
    \/ createRecoveryKeys(p)
    \/ processCredentialRequest_StartFrom(p)
    \/ recover_RecoveryKey(p)

RecoverySpec == Init /\ [][RecoveryNext]_vars

\* CredentialsMap of the auth_storage module alone, on a fresh profile.
StorageInit == Init /\ sync = Pristine

StorageNext ==
  \E p \in Slots :
    \/ CredentialsMap_put_Exists(p)
    \/ CredentialsMap_put_Load(p)
    \/ CredentialsMap_put_Set(p)
    \/ CredentialsMap_load_Get(p)
    \/ CredentialsMap_load_Import(p)
    \/ CredentialsMap_lookup_Load(p)
    \/ CredentialsMap_lookup_Filter(p)
    \/ CredentialsMap_exists(p)

StorageSpec == StorageInit /\ [][StorageNext]_vars

\* PSKStorage alone, on a fresh profile: its entries (the endpoint and the
\* backup keys) are no entries of CredentialsMap.
PSKStorageNext ==
  \E p \in Slots :
    \/ setBDEndpoint(p)
    \/ getBDEndpoint(p)
    \/ storeBackupKeys_Exist(p)
    \/ storeBackupKeys_Load(p)
    \/ storeBackupKeys_Set(p)
    \/ loadBackupKeys(p)

PSKStorageSpec == StorageInit /\ [][PSKStorageNext]_vars

----------------------------------------------------------------------------
\* Properties.

\* Whether the pool stored under identifier holds a key with the given id.
InPool(store, identifier, id) ==
  \E i \in 1..Len(store[identifier].list) : store[identifier].list[i].id = id

\* Whether the stored delegation list holds a record for the backup id.
HasDelegation(id) ==
  /\ sync["delegation"].present
  /\ \E i \in 1..Len(sync["delegation"].list) : sync["delegation"].list[i].backupId = id

IsPop(op) == op \in {"popBackupKey", "popBackupKeyLegacy"}

\* C1: across the pops issued against one persisted pool (one that no
\* syncBackupKeys has replaced since), in any interleaving, no backup key id
\* is returned by two pops.
C1_NoIdPoppedTwice ==
  reloaded \/ \A id \in BackupIds : issued[id] <= 1

\* C2: a pop that finds the persisted pool as it fetched it (no write came in
\* between), with at least one key in it, returns the last key of the stored
\* list and leaves the stored list without that key, the rest in order; the
\* other entries are left as they are.  popBackupKey of src/recovery.ts pops
\* from the entry its argument names.
C2_PopReturnsLast ==
  [][\A p \in Slots :
       LET fetched == IF req[p].pc = "pop_store" THEN req[p].pskKeys ELSE req[p].bckpKeys
           pool == IF req[p].pc = "pop_store" THEN "backup" ELSE req[p].identifier
       IN (/\ req[p].pc \in {"pop_store", "legacy_pop_store"}
           /\ req'[p].pc = "idle"
           /\ sync[pool] = Stored(fetched)
           /\ Len(fetched) >= 1)
          => /\ IsPop(out'.op) /\ out'.kind = "ok"
             /\ IF pool = "delegation"
                THEN out'.delegation = << Last(sync[pool].list) >>
                ELSE /\ out'.id = Last(sync[pool].list).id
                     /\ out'.key = Last(sync[pool].list).key
             /\ sync'[pool] = Stored(Front(sync[pool].list))
             /\ Len(sync'[pool].list) = Len(sync[pool].list) - 1
             /\ \A other \in Identifiers \ {pool} : sync'[other] = sync[other]]_vars

\* A pop has just returned B(2), the last key of the bundle, and left B(1).
C2_Witness ==
  /\ out.op = "popBackupKey" /\ out.kind = "ok" /\ out.id = B(2)
  /\ sync["backup"] = Stored(<< BackupAsset[1] >>)

\* C3: no pop entry point returns an undefined key as a normal result (a pop
\* on an empty pool fails with an error).
C3_PopOnEmptyFails ==
  (IsPop(out.op) /\ out.kind = "ok") => out.id # Undefined.id

\* C4: a syncBackupKeys that completes after keys have been popped does not
\* put an already-popped key back into the persisted backup pool.
C4_NoPoppedKeyRestored ==
  [][\A p \in Slots :
       (req[p].pc = "sync_store" /\ req'[p].pc = "idle")
       => \A id \in BackupIds : issued[id] > 0 => ~InPool(sync', "backup", id)]_vars

\* The recovery flow of slot p has resolved its delegation, the recovery key
\* the delegation names is in the persisted pool, and the flow takes its
\* next step (getRecoveryKey).
SelectsRecoveryKey(p) ==
  /\ req[p].pc = "recover_key"
  /\ InPool(sync, "recovery", req[p].delegation.replacementId)
  /\ req'[p] # req[p]

\* C5: a recovery flow goes on to the replacement key, and returns, only
\* with a delegation whose signature verifies against the backup key's
\* public key.
C5_UnverifiedDelegationBlocked ==
  /\ \A p \in Slots :
       req[p].pc \in {"recover_key", "recover_save", "recover_sign"} => req[p].delegation.sigOk
  /\ (out.op = "recover" /\ out.kind = "ok") => out.delegation[1].sigOk

\* C6: a request with the PSK extension whose offered credential id has no
\* delegation record when the request looks the delegation up fails with an
\* error: the lookup settles (the request is not left pending), the request
\* is never handled by the normal lookup, it does not go on to the recovery
\* key or to a signature, and the failing step persists no key.
C6_RecoveryGate ==
  /\ [][\A p \in Slots :
          req[p].pc = "idle" => ~(req'[p].pc = "hung" /\ req'[p].op = "recover")]_vars
  /\ [][\A p \in Slots :
          (req[p].pc = "idle" /\ req'[p].pc \in {"recover_key", "recover_save"})
          => HasDelegation(req'[p].allowCredentials[1])]_vars
  /\ [](\A p \in Slots : req[p].pc \in {"get_loop", "get_sign"} => ~req[p].psk)
  /\ []((/\ out.op \in {"get", "recover"} /\ out.psk
         /\ Len(out.offered) > 0 /\ ~HasDelegation(out.offered[1]))
        => (out.op = "recover" /\ out.kind = "error"))
  /\ [][(out'.op \in {"get", "recover"} /\ out'.psk /\ out'.kind = "error")
        => keys' = keys]_vars

\* C7: the step of a recovery flow that selects a recovery key of the pool
\* leaves the persisted pool without that key, and no recovery key id is
\* used by two recovery flows.
C7_RecoveryKeyOneTime ==
  /\ [][\A p \in Slots :
          SelectsRecoveryKey(p)
          => ~InPool(sync', "recovery", req[p].delegation.replacementId)]_vars
  /\ [](\A id \in RecIds : usedRec[id] <= 1)

\* The scan step of slot p looks at credential id x, which the store holds
\* wrapped under the request's PIN.
ScansStored(p, x) ==
  /\ req[p].pc = "get_loop"
  /\ req'[p] # req[p]
  /\ x = req[p].allowCredentials[req[p].i]
  /\ keys[x].present
  /\ keys[x].pin = req[p].pin

\* The scan step of slot p breaks at credential id x and goes on to the
\* assertion with the key stored under x.
FindsStored(p, x) ==
  /\ req'[p].pc = "get_sign"
  /\ req'[p].encCredId = x
  /\ req'[p].key = keys[x].key
  /\ req'[p].pin = req[p].pin

\* The assertion step of slot p answers with the credential id and signs
\* with the key the scan went on with.
SignsWithFound(p) ==
  (req[p].pc = "get_sign" /\ req'[p] # req[p])
  => /\ req'[p] = Idle
     /\ out'.op = "get" /\ out'.kind = "ok"
     /\ out'.id = req[p].encCredId
     /\ out'.key = req[p].key
     /\ out'.pin = req[p].pin
     /\ out'.offered = req[p].allowCredentials

\* C8: a recovery flow with PIN P whose recovery key R is in the pool goes
\* on to persist it; the recovery persists R's private key under R's id
\* wrapped with P, and an ordinary assertion that offers R's id with the PIN
\* the key is wrapped under finds that key and signs with it.
C8_RecoveredKeyUsable ==
  [][\A p \in Slots :
       /\ SelectsRecoveryKey(p)
          => /\ req'[p].pc = "recover_save"
             /\ req'[p].recoveryKey.key = <<"rk", req[p].delegation.replacementId[2]>>
             /\ req'[p].pin = req[p].pin
       /\ (req[p].pc = "recover_save" /\ req'[p] # req[p])
          => /\ keys'[req[p].recoveryKey.id] =
                  [present |-> TRUE, key |-> req[p].recoveryKey.key, pin |-> req[p].pin]
             /\ req'[p] = [req[p] EXCEPT !.pc = "recover_sign"]
       /\ (req[p].pc = "recover_sign" /\ req'[p] # req[p])
          => (out'.op = "recover" /\ out'.kind = "ok" /\ out'.id = req[p].recoveryKey.id)
       /\ \A x \in RecIds :
            (ScansStored(p, x) /\ keys[x].key = <<"rk", x[2]>>) => FindsStored(p, x)
       /\ SignsWithFound(p)]_vars

\* C9: a successful creation with PIN P that returns id X persists its
\* generated private key under X wrapped with P; the key persisted under X
\* stays the key stored under X; and an ordinary assertion that offers X
\* with that PIN finds that key, returns X and signs with it.
C9_CreatedKeyUsable ==
  [][/\ \A p \in Slots :
          /\ (req[p].pc = "create_save" /\ req'[p].pc = "idle")
             => /\ keys'[req[p].bckpKey.id] =
                     [present |-> TRUE, key |-> GeneratedKey(req[p].opNo),
                      pin |-> req[p].pin]
                /\ out'.op = "create" /\ out'.kind = "ok"
                /\ out'.id = req[p].bckpKey.id
          /\ \A x \in BackupIds :
               (ScansStored(p, x) /\ keys[x].key[1] = "gk") => FindsStored(p, x)
          /\ SignsWithFound(p)
     /\ \A x \in BackupIds : keys[x].present => keys'[x] = keys[x]]_vars

\* C10: a creation whose credential id is found in the store fails with the
\* "already exists" error, returns no credential and leaves the stored keys
\* as they are.
C10_DuplicateRejected ==
  [][\A p \in Slots :
       (/\ req[p].pc = "create_exists"
        /\ req'[p] # req[p]
        /\ keys[req[p].bckpKey.id].present)
       => /\ out'.op = "create" /\ out'.kind = "error" /\ out'.err = "already exists"
          /\ req'[p] = Idle
          /\ keys' = keys]_vars

\* A creation has just failed on an id the store already holds a key under.
C10_Witness ==
  /\ out.op = "create" /\ out.kind = "error" /\ out.err = "already exists"
  /\ keys[out.id].present

\* C11: in the assertion flow without the PSK extension the scan starts at
\* the first offered id and takes the ids in the caller's order; a step that
\* looks at an id stored under the request's PIN breaks the scan with that id
\* and the key stored under it, a step that looks at any other id moves on
\* to the next candidate without answering, and after the last candidate the
\* request fails with the not-found error; the answer carries the id the
\* scan broke at, which is an offered id no earlier candidate of which was
\* found, and is signed with the key fetched for it.
C11_FirstMatchSelected ==
  /\ [][\A p \in Slots :
          /\ (req[p].pc = "idle" /\ req'[p].pc = "get_loop") => req'[p].i = 1
          /\ (req[p].pc = "get_loop" /\ req'[p] # req[p])
             => LET x == req[p].allowCredentials[req[p].i]
                IN IF keys[x].present /\ keys[x].pin = req[p].pin
                   THEN /\ req'[p].pc = "get_sign"
                        /\ req'[p].encCredId = x /\ req'[p].key = keys[x].key
                        /\ req'[p].allowCredentials = req[p].allowCredentials
                        /\ req'[p].pin = req[p].pin
                        /\ out' = NoResponse
                   ELSE IF req[p].i < Len(req[p].allowCredentials)
                        THEN /\ req'[p] = [req[p] EXCEPT !.i = req[p].i + 1]
                             /\ out' = NoResponse
                        ELSE /\ req'[p] = Idle
                             /\ out'.op = "get" /\ out'.kind = "error"
                             /\ out'.err = "not found" /\ out'.id = NoId
          /\ SignsWithFound(p)]_vars
  /\ [][(out'.op = "get" /\ out'.kind = "ok")
        => \E p \in Slots : req[p].pc = "get_sign" /\ req'[p] = Idle]_vars
  /\ []((out.op = "get" /\ out.kind = "ok")
        => \E i \in 1..Len(out.offered) : out.offered[i] = out.id)

\* An assertion has just answered with its second candidate: the first is
\* stored, but under another PIN, and both ids hold a key.
C11_Witness ==
  /\ out.op = "get" /\ out.kind = "ok"
  /\ Len(out.offered) = 2
  /\ out.offered[1] # out.offered[2]
  /\ out.id = out.offered[2]
  /\ keys[out.offered[1]].present
  /\ keys[out.offered[1]].pin # out.pin

C17_AttestationRejected ==
  /\ [](\A p \in Slots :
          req[p].pc \in {"create_pop", "create_exists", "create_save"}
          => req[p].attestation = "none")
  /\ []((out.op = "create" /\ out.attestation # "none") => out.kind = "null")
  /\ [][(out'.op = "create" /\ out'.kind = "null")
        => (sync' = sync /\ keys' = keys /\ issued' = issued)]_vars

\* A creation asking for direct attestation has just been answered with null
\* while the backup pool holds a key it could have popped.
C17_Witness ==
  /\ out.op = "create" /\ out.kind = "null" /\ out.attestation = "direct"
  /\ sync["backup"].present
  /\ Len(sync["backup"].list) > 0

C20_SyncCompletes ==
  \A p \in Slots :
    ~(req[p].pc = "hung" /\ req[p].op \in {"syncBackupKeys", "syncDelegation"})

\* What identifies a credential source: its id, rpId, key with its algorithm,
\* and type.
Identity(credSrc) ==
  [id |-> credSrc.id, rpId |-> credSrc.rpId, privateKey |-> credSrc.privateKey,
   type |-> credSrc.type]
Identities(credSrcs) == [i \in 1..Len(credSrcs) |-> Identity(credSrcs[i])]

\* C13: every record a put exports imports back to a credential source with
\* the same id, rpId, key and key algorithm; the three header bytes are the
\* lengths of the salt, IV and algorithm descriptor segments, which are the
\* ones export wrote, and header and segments make up the whole payload.
C13_WrapRoundTrip ==
  [][\A p \in Slots :
       (req[p].pc = "put_set" /\ req'[p] = Idle)
       => LET stored == local'[req[p].rpId][1]
          IN /\ Len(stored) = Len(req[p].credSrcs)
             /\ \A i \in 1..Len(stored) :
                  \A c \in {req[p].credSrcs[i]},
                     payload \in {base64ToByteArray(stored[i].privateKey)},
                     back \in {import(stored[i])} :
                  \A seg \in {ImportSegments(payload)} :
                     /\ payload[1].n = Len(seg.salt)
                     /\ payload[2].n = Len(seg.iv)
                     /\ payload[3].n = Len(seg.keyAlgorithmBytes)
                     /\ Len(seg.salt) = saltLength
                     /\ Len(seg.iv) = ivLength
                     /\ seg.keyAlgorithmBytes = EncodedAlgorithm(c.privateKey.algorithm)
                     /\ payload = SubSeq(payload, 1, 3) \o seg.salt \o seg.iv
                                    \o seg.keyAlgorithmBytes \o seg.keyBytes
                     /\ Len(back) = 1
                     /\ Identity(back[1]) = Identity(c)]_vars

\* A put has just stored two records whose algorithm descriptors differ in
\* length.
C13_Witness ==
  /\ out.op = "put"
  /\ Len(local[out.rpId][1]) >= 2
  /\ \E i, j \in 1..Len(local[out.rpId][1]) :
       base64ToByteArray(local[out.rpId][1][i].privateKey)[3].n
         # base64ToByteArray(local[out.rpId][1][j].privateKey)[3].n

\* C14: as long as no two puts overlapped, the list stored under rpId holds
\* the credential sources put under rpId, in the order they were put, and
\* every record of it imports; a load reads that whole list, and it settles
\* with exactly the records of the list it read, in put order (the records
\* put by the time it read the store).
C14_PutOrder ==
  /\ [](~putLog.overlapped
        => \A rp \in RpIds :
             /\ ~LoadHangs(local, rp)
             /\ Identities(load(local, rp)) = Identities(putLog.log[rp]))
  /\ [][\A p \in Slots :
          (~putLog.overlapped /\ req[p].pc = "idle" /\ req'[p].pc = "load_import")
          => /\ DOMAIN req'[p].resp = {req'[p].rpId}
             /\ Len(req'[p].resp[req'[p].rpId][1]) = Len(putLog.log[req'[p].rpId])]_vars
  /\ [][(~putLog.overlapped /\ ops' = ops + 1 /\ out'.op = "load")
         => (out'.value = << >> /\ putLog.log[out'.rpId] = << >>)]_vars
  /\ [][\A p \in Slots :
          (~putLog.overlapped /\ req[p].pc = "load_import" /\ req'[p] # req[p])
          => /\ req'[p].pc = "idle"
             /\ out'.op = "load" /\ out'.kind = "ok" /\ out'.rpId = req[p].rpId
             /\ Identities(out'.value)
                  = SubSeq(Identities(putLog.log[req[p].rpId]), 1,
                           Len(req[p].resp[req[p].rpId][1]))]_vars

\* A load has just returned two different records after two puts that did
\* not overlap.
C14_Witness ==
  /\ out.op = "load"
  /\ ~putLog.overlapped
  /\ Len(out.value) = 2
  /\ out.value[1] # out.value[2]
  /\ Len(putLog.log[out.rpId]) = 2

\* C15: for an rpId nothing was ever stored under, load settles with the
\* empty list and exists answers false; neither call writes to the store.
C15_LoadAbsent ==
  /\ []((out.op = "load" /\ putLog.log[out.rpId] = << >>)
        => (out.kind = "ok" /\ out.value = << >>))
  /\ []((out.op = "exists" /\ putLog.log[out.rpId] = << >>) => out.value = FALSE)
  /\ [](\A p \in Slots : ~(req[p].pc = "hung" /\ req[p].op = "load"))
  /\ [][(out'.op \in {"load", "exists"}) => local' = local]_vars

\* A load of an rpId nothing was stored under has just returned the empty
\* list, while records are stored under another rpId.
C15_Witness ==
  /\ out.op = "load" /\ out.kind = "ok" /\ out.value = << >>
  /\ putLog.log[out.rpId] = << >>
  /\ Len(local[out.rpId]) = 0
  /\ \E rp \in RpIds : Len(local[rp]) = 1

\* C16: lookup(rpId, credentialId) reads the list stored under rpId and
\* nothing else, and answers with the first record of the list it read, in
\* stored order, whose id is credentialId, and with null when that list has
\* no such record; when nothing is stored under rpId it answers null at
\* once.
C16_LookupFirst ==
  /\ [][\A p \in Slots :
          (req[p].pc = "idle" /\ req'[p].pc = "lookup_filter")
          => /\ req'[p].resp = [k \in {req'[p].rpId} |-> local[k]]
             /\ Len(local[req'[p].rpId]) > 0]_vars
  /\ [][(ops' = ops + 1 /\ out'.op = "lookup")
        => (out'.value = << >> /\ local[out'.rpId] = NoEntry)]_vars
  /\ [][\A p \in Slots :
          (req[p].pc = "lookup_filter" /\ req'[p].pc = "idle")
          => LET l == load(req[p].resp, req[p].rpId)
                 hits == { i \in 1..Len(l) : l[i].id = req[p].credSrcId }
             IN /\ out'.op = "lookup"
                /\ out'.rpId = req[p].rpId /\ out'.credSrcId = req[p].credSrcId
                /\ IF hits = {}
                   THEN out'.value = << >>
                   ELSE /\ out'.value = << l[CHOOSE i \in hits : \A j \in hits : i <= j] >>
                        /\ out'.value[1].id = req[p].credSrcId]_vars

\* A lookup has just returned the first of two different records stored
\* under the looked-up id.
C16_Witness ==
  /\ out.op = "lookup"
  /\ Len(out.value) = 1
  /\ LET l == load(local, out.rpId)
     IN \E i, j \in 1..Len(l) :
          /\ i < j
          /\ l[i].id = out.credSrcId /\ l[j].id = out.credSrcId
          /\ l[i] # l[j]
          /\ out.value[1] = l[i]

\* C19: once an endpoint is stored, getBDEndpoint returns the stored
\* endpoint.
C19_EndpointRoundTrip ==
  (out.op = "getBDEndpoint" /\ Len(local[BD_ENDPOINT]) = 1)
  => out.value = local[BD_ENDPOINT][1]

\* C21: the delegation a recovery flow obtained for an offered backup
\* credential id has that id as its backupId.
C21_DelegationMatchesRequest ==
  \A p \in Slots :
    req[p].pc \in {"recover_key", "recover_save", "recover_sign"}
    => req[p].delegation.backupId = req[p].allowCredentials[1]

\* C22: the steps of a creation that did not ask for the PSK extension leave
\* the persisted backup key pool as it is.
C22_PoolKeptWithoutExtension ==
  [][\A p \in Slots :
       (/\ req[p].pc \in {"create_pop", "create_exists", "create_save"}
        /\ ~req[p].supportRecovery
        /\ req'[p] # req[p])
       => sync'["backup"] = sync["backup"]]_vars

\* C24: createRecoveryKeys leaves every recovery key that was in the
\* persisted pool in it, and the pool grows by the number of keys generated.
C24_RecoveryPoolGrows ==
  [][(out'.op = "createRecoveryKeys" /\ sync["recovery"].present)
     => /\ \A id \in RecIds :
             InPool(sync, "recovery", id) => InPool(sync', "recovery", id)
        /\ Len(sync'["recovery"].list)
             = Len(sync["recovery"].list) + (nextRec' - nextRec)]_vars

\* C27: when a creation has failed because its credential id already exists,
\* the backup key drawn for it is still in the persisted backup key pool.
C27_DuplicateKeepsBackupKey ==
  (out.op = "create" /\ out.kind = "error" /\ out.err = "already exists")
  => InPool(sync, "backup", out.id)

\* C23: a put writes the list it built from its own reads, whatever another
\* put has stored under the same rpId since; so of two puts for one rpId that
\* both read before either writes, the stored list holds the record of the
\* one that wrote last and not the record of the other.
C23_PutWritesOwnSnapshot ==
  [][\A p \in Slots :
       (req[p].pc = "put_set" /\ req'[p].pc = "idle")
       => /\ ~LoadHangs(local', req[p].rpId)
          /\ Identities(load(local', req[p].rpId)) = Identities(req[p].credSrcs)]_vars

\* Two puts of different records for one rpId have both completed, they
\* overlapped, and the stored list holds only the record of the second.
C23_Witness ==
  /\ out.op = "put"
  /\ putLog.overlapped
  /\ \A p \in Slots : req[p].pc = "idle"
  /\ Len(putLog.log[out.rpId]) = 2
  /\ Identity(putLog.log[out.rpId][1]) # Identity(putLog.log[out.rpId][2])
  /\ Identities(load(local, out.rpId)) = << Identity(putLog.log[out.rpId][2]) >>

C26_AssertionReadOnly ==
  [][\A p \in Slots :
       (\/ /\ req[p].pc = "idle"
           /\ out'.op \in {"get", "recover"} /\ ~out'.psk
        \/ /\ req[p].pc = "idle"
           /\ req'[p].pc \in {"get_loop", "recover_key"} /\ ~req'[p].psk
        \/ /\ req[p].pc \in {"get_loop", "get_sign", "recover_key", "recover_save",
                           "recover_sign"}
           /\ ~req[p].psk
           /\ req'[p] # req[p])
       => (keys' = keys /\ sync' = sync)]_vars

\* An assertion request without the PSK extension has just returned a
\* credential for a stored key, with the pools and the delegation list stored.
C26_Witness ==
  /\ out.op = "get" /\ out.kind = "ok" /\ ~out.psk
  /\ keys[out.id].present
  /\ sync["backup"].present /\ sync["recovery"].present /\ sync["delegation"].present

====
